---- MODULE Spec2Model ----
(***************************************************************************)
(* Task-tracking HTTP service (hello/src/main.rs): the in-memory task      *)
(* store behind one Mutex, the five request handlers, and the free-text    *)
(* parser of the completion API's answer.                                  *)
(*                                                                         *)
(* Strings the parser reads are sequences of one-character strings, so     *)
(* that contains / split / split_whitespace / format! are computed.        *)
(* Option<T> is a sequence: None is << >>, Some(x) is << x >>.             *)
(***************************************************************************)
EXTENDS Integers, Sequences, FiniteSets

VARIABLES
    store,      \* Db: the Vec<Task> behind the Mutex
    lock,       \* the Mutex: 0 when free, else the request holding the guard
    nextId,     \* Uuid::new_v4(): the next id never handed out before
    apiKeySet,  \* whether CLAUDE_API_KEY is in the process environment
    op,         \* per request: which handler the router chose
    pc,         \* per request: where its handler stands
    path,       \* per request: Path<Uuid> of the request
    task,       \* per request: Json payload / the handler's local task
    reply,      \* per request: what the external completion call came back with
    resp,       \* per request: the response (status, body as a list of tasks)
    text,       \* parser check: the completion text
    parsed,     \* parser check: the task analyze_task_with_claude returned
    ppc         \* parser check: "start" or "done"

vars == <<store, lock, nextId, apiKeySet, op, pc, path, task, reply, resp, text, parsed, ppc>>
storeVars == <<store, lock, nextId, apiKeySet, op, pc, path, task, reply, resp>>
parseVars == <<text, parsed, ppc>>

\* ------------------------------------------------------------------ bounds
\* number of requests the clients send
MaxReqs == 3
\* number of atoms a completion text is built from
MaxAtoms == 3

\* ----------------------------------------------------------------- strings
None == << >>
Some(x) == << x >>

High == <<"H", "i", "g", "h">>
Medium == <<"M", "e", "d", "i", "u", "m">>
Low == <<"L", "o", "w">>
hours == <<"h", "o", "u", "r", "s">>
Space == <<" ">>

\* char::is_whitespace, on the characters the texts are built from
IsWhitespace(c) == c \in {" ", "\n", "\t"}

\* whether pat starts at index i of s
MatchAt(s, pat, i) ==
    /\ i >= 1
    /\ i + Len(pat) - 1 <= Len(s)
    /\ \A j \in 1..Len(pat) : s[i + j - 1] = pat[j]

\* str::find: the first index at or after i where pat starts, 0 when none
RECURSIVE FindFrom(_, _, _)
FindFrom(s, pat, i) ==
    IF i + Len(pat) - 1 > Len(s) THEN 0
    ELSE IF MatchAt(s, pat, i) THEN i
    ELSE FindFrom(s, pat, i + 1)

\* str::contains
Contains(s, pat) == FindFrom(s, pat, 1) # 0

\* s.split(pat).next(): the piece before the first pat, the whole of s when
\* pat does not occur; always Some
SplitNext(s, pat) ==
    LET i == FindFrom(s, pat, 1)
    IN  IF i = 0 THEN Some(s) ELSE Some(SubSeq(s, 1, i - 1))

\* s without its trailing whitespace
RECURSIVE TrimEnd(_)
TrimEnd(s) ==
    IF s = << >> THEN << >>
    ELSE IF IsWhitespace(s[Len(s)]) THEN TrimEnd(SubSeq(s, 1, Len(s) - 1))
    ELSE s

\* the longest suffix of s without whitespace
RECURSIVE LastRun(_)
LastRun(s) ==
    IF s = << >> THEN << >>
    ELSE IF IsWhitespace(s[Len(s)]) THEN << >>
    ELSE LastRun(SubSeq(s, 1, Len(s) - 1)) \o <<s[Len(s)]>>

\* s.split_whitespace().last()
SplitWhitespaceLast(s) ==
    LET t == TrimEnd(s)
    IN  IF t = << >> THEN None ELSE Some(LastRun(t))

\* format!("{} hours", time)
FormatHours(time) == time \o Space \o hours

\* ------------------------------------------------------------------- tasks
Task(i, ti, c, p, e) ==
    [id |-> i, title |-> ti, completed |-> c, priority |-> p, estimated_time |-> e]

\* Task { id: Uuid::new_v4(), title, completed: false, priority: None,
\* estimated_time: None }
Draft(i, ti) == Task(i, ti, FALSE, None, None)

\* the value a request slot's task holds before the router fills it
NoTask == Task(0, "", FALSE, None, None)
NoResp == [status |-> 0, body |-> << >>]

\* ------------------------------------------------- the completion parser
\* mutant: the keyword that stands first in the text wins
ParsePriorityByPosition(t, ai) ==
    LET h == FindFrom(ai, High, 1)
        m == FindFrom(ai, Medium, 1)
        l == FindFrom(ai, Low, 1)
        Earlier(a, b) == a # 0 /\ (b = 0 \/ a < b)
    IN  IF Earlier(h, m) /\ Earlier(h, l) THEN [t EXCEPT !.priority = Some(High)]
        ELSE IF Earlier(m, l) /\ m # 0 THEN [t EXCEPT !.priority = Some(Medium)]
        ELSE IF l # 0 THEN [t EXCEPT !.priority = Some(Low)]
        ELSE IF h # 0 THEN [t EXCEPT !.priority = Some(High)]
        ELSE IF m # 0 THEN [t EXCEPT !.priority = Some(Medium)]
        ELSE t

\* the if / else-if chain over contains("High"), ("Medium"), ("Low")
ParsePriority(t, ai) ==
    IF Contains(ai, High) THEN [t EXCEPT !.priority = Some(High)]
    ELSE IF Contains(ai, Medium) THEN [t EXCEPT !.priority = Some(Medium)]
    ELSE IF Contains(ai, Low) THEN [t EXCEPT !.priority = Some(Low)]
    ELSE t

\* ai.split("hours").next().and_then(|s| s.split_whitespace().last())
ParseEstimatedTime(t, ai) ==
    LET first == SplitNext(ai, hours)
        time  == IF first = None THEN None ELSE SplitWhitespaceLast(first[1])
    IN  IF time # None
        THEN [t EXCEPT !.estimated_time = Some(FormatHours(time[1]))]
        ELSE t

\* What the external call can come back with: send() failing, the body not
\* being JSON, or a JSON value whose "completion" is a string or is not.
SendErr == [kind |-> "send_err", completion |-> None]
JsonErr == [kind |-> "json_err", completion |-> None]
JsonNoCompletion == [kind |-> "json", completion |-> None]
JsonCompletion(c) == [kind |-> "json", completion |-> Some(c)]
\* no call made (yet)
NoReply == [kind |-> "none", completion |-> None]

\* analyze_task_with_claude once the external call has returned:
\* Err(INTERNAL_SERVER_ERROR) or Ok(task)
analyze_task_with_claude(t, outcome) ==
    IF outcome.kind # "json"
    THEN [ok |-> FALSE, task |-> t]
    ELSE LET ai_response == IF outcome.completion = None
                            THEN << >>
                            ELSE outcome.completion[1]
         IN  [ok |-> TRUE,
              task |-> ParseEstimatedTime(ParsePriority(t, ai_response), ai_response)]

\* match analyze_task_with_claude(task.clone()).await { Ok(a) => a, Err(_) => task.clone() }
TaskWithAi(t, outcome) ==
    LET res == analyze_task_with_claude(t, outcome)
    IN  IF res.ok THEN res.task ELSE t

\* ------------------------------------------------------- the store, pure
\* db.iter().find(|t| t.id == id): the first index carrying id, 0 when none
RECURSIVE FindId(_, _, _)
FindId(s, id, i) ==
    IF i > Len(s) THEN 0
    ELSE IF s[i].id = id THEN i
    ELSE FindId(s, id, i + 1)

\* mutant: the predicate of retain inverted
RetainInverted(s, id) == SelectSeq(s, LAMBDA t : t.id = id)

\* db.retain(|t| t.id != id)
RECURSIVE Retain(_, _)
Retain(s, id) ==
    IF s = << >> THEN << >>
    ELSE IF Head(s).id # id THEN <<Head(s)>> \o Retain(Tail(s), id)
    ELSE Retain(Tail(s), id)

\* mutant: the push lands in a clone of the Vec
PushToClone(s, t) == s

\* db_guard.push(task_with_ai.clone())
Push(s, t) == Append(s, t)

\* get_task's answer on a store: Ok(Json(task)) or Err(NOT_FOUND)
GetResp(s, id) ==
    LET i == FindId(s, id, 1)
    IN  IF i # 0 THEN [status |-> 200, body |-> <<s[i]>>]
        ELSE [status |-> 404, body |-> << >>]

\* mutant: an id that is not found is inserted
UpdateStoreUpsert(s, id, payload) ==
    LET i == FindId(s, id, 1)
    IN  IF i # 0 THEN [s EXCEPT ![i] = payload] ELSE Append(s, payload)

\* update_task's effect on a store: *task = payload on the first match
UpdateStore(s, id, payload) ==
    LET i == FindId(s, id, 1)
    IN  IF i # 0 THEN [s EXCEPT ![i] = payload] ELSE s

\* update_task's answer: Ok(Json(task.clone())) after the assignment
UpdateResp(s, id, payload) ==
    LET i == FindId(s, id, 1)
    IN  IF i # 0 THEN [status |-> 200, body |-> <<UpdateStore(s, id, payload)[i]>>]
        ELSE [status |-> 404, body |-> << >>]

\* delete_task's answer: NO_CONTENT when retain shortened the Vec
DeleteResp(s, id) ==
    IF Len(Retain(s, id)) # Len(s)
    THEN [status |-> 204, body |-> << >>]
    ELSE [status |-> 404, body |-> << >>]

\* ---------------------------------------------------------------- inputs
Reqs == 1..MaxReqs

Titles == {"Buy milk"}

\* completion texts the external service answers with in the store runs
Three == <<"3">>
ServiceTexts == {Medium \o Space \o Three \o Space \o hours}

Outcomes ==
    {SendErr, JsonErr, JsonNoCompletion} \cup {JsonCompletion(c) : c \in ServiceTexts}

\* ids a client can put in a path or a body: those some response carried,
\* and one UUID of its own making that new_v4 never returns
KnownIds ==
    {0} \cup UNION {{resp[r].body[i].id : i \in 1..Len(resp[r].body)} : r \in Reqs}

\* the title / completed / priority / estimated_time of PATCH bodies
PatchFields ==
    {Task(0, "Pay rent", TRUE, None, None),
     Task(0, "Buy milk", FALSE, Some(High), Some(FormatHours(Three)))}

Payloads(fields) == {[f EXCEPT !.id = i] : f \in fields, i \in KnownIds}

\* atoms the parser's texts are concatenated from
Atoms == {High, Medium, Low, hours, Space, Three, <<"h", "o">>}

RECURSIVE Texts(_)
Texts(n) ==
    IF n = 0 THEN {<< >>}
    ELSE Texts(n - 1) \cup {t \o a : t \in Texts(n - 1), a \in Atoms}

\* ------------------------------------------------------------------ Init
StoreInit ==
    /\ store = << >>
    /\ lock = 0
    /\ nextId = 1
    /\ op = [r \in Reqs |-> "none"]
    /\ pc = [r \in Reqs |-> "idle"]
    /\ path = [r \in Reqs |-> 0]
    /\ task = [r \in Reqs |-> NoTask]
    /\ reply = [r \in Reqs |-> NoReply]
    /\ resp = [r \in Reqs |-> NoResp]

Init ==
    /\ StoreInit
    /\ apiKeySet \in BOOLEAN
    /\ text = << >>
    /\ parsed = NoTask
    /\ ppc = "off"

\* --------------------------------------------------------------- actions
\* requests arrive in slot order
CanArrive(r) == pc[r] = "idle" /\ (IF r = 1 THEN TRUE ELSE pc[r - 1] # "idle")

\* Uuid::new_v4()
NewV4 == nextId

\* mutant: the guard is taken before the external call and kept across it
create_task_begin_locked(r, title) ==
    /\ CanArrive(r)
    /\ lock = 0
    /\ lock' = r
    /\ op' = [op EXCEPT ![r] = "create"]
    /\ nextId' = nextId + 1
    /\ task' = [task EXCEPT ![r] = Draft(NewV4, title)]
    /\ pc' = [pc EXCEPT ![r] = "await"]
    /\ UNCHANGED <<store, apiKeySet, path, reply, resp, parseVars>>

\* mutant: the draft is pushed before the external call
create_task_begin_inserting(r, title) ==
    /\ CanArrive(r)
    /\ op' = [op EXCEPT ![r] = "create"]
    /\ nextId' = nextId + 1
    /\ task' = [task EXCEPT ![r] = Draft(NewV4, title)]
    /\ store' = Append(store, Draft(NewV4, title))
    /\ pc' = [pc EXCEPT ![r] = "await"]
    /\ UNCHANGED <<lock, apiKeySet, path, reply, resp, parseVars>>

\* POST /tasks: create_task up to the external call. The draft is built,
\* analyze_task_with_claude reads CLAUDE_API_KEY (expect panics when it is
\* not set, and the request dies without an answer) and sends the request.
create_task_begin(r, title) ==
    /\ CanArrive(r)
    /\ op' = [op EXCEPT ![r] = "create"]
    /\ nextId' = nextId + 1
    /\ IF apiKeySet
       THEN /\ task' = [task EXCEPT ![r] = Draft(NewV4, title)]
            /\ pc' = [pc EXCEPT ![r] = "await"]
       ELSE /\ task' = task
            /\ pc' = [pc EXCEPT ![r] = "panicked"]
    /\ UNCHANGED <<store, lock, apiKeySet, path, reply, resp, parseVars>>

\* the external call returns; task_with_ai is chosen by the match
create_task_analyzed(r, outcome) ==
    /\ pc[r] = "await"
    /\ reply' = [reply EXCEPT ![r] = outcome]
    /\ task' = [task EXCEPT ![r] = TaskWithAi(task[r], outcome)]
    /\ pc' = [pc EXCEPT ![r] = "lock"]
    /\ UNCHANGED <<store, lock, nextId, apiKeySet, op, path, resp, parseVars>>

\* the router hands a GET / PATCH / DELETE request to its handler, which
\* starts with db.lock()
Route(r, o, id, payload) ==
    /\ CanArrive(r)
    /\ op' = [op EXCEPT ![r] = o]
    /\ path' = [path EXCEPT ![r] = id]
    /\ task' = [task EXCEPT ![r] = payload]
    /\ pc' = [pc EXCEPT ![r] = "lock"]
    /\ UNCHANGED <<store, lock, nextId, apiKeySet, reply, resp, parseVars>>

\* db.lock().unwrap(): the guard is taken when the Mutex is free
Acquire(r) ==
    /\ pc[r] = "lock"
    /\ lock = 0
    /\ lock' = r
    /\ pc' = [pc EXCEPT ![r] = "crit"]
    /\ UNCHANGED <<store, nextId, apiKeySet, op, path, task, reply, resp, parseVars>>

\* under the guard: the handler's body, the guard's drop and the answer;
\* the handler returns and its locals are gone
Finish(r, newStore, answer) ==
    /\ pc[r] = "crit"
    /\ lock = r
    /\ store' = newStore
    /\ resp' = [resp EXCEPT ![r] = answer]
    /\ lock' = 0
    /\ pc' = [pc EXCEPT ![r] = "done"]
    /\ path' = [path EXCEPT ![r] = 0]
    /\ task' = [task EXCEPT ![r] = NoTask]
    /\ UNCHANGED <<nextId, apiKeySet, op, reply, parseVars>>

\* mutant: the Err of analyze_task_with_claude is passed on to the client
create_task_insert_propagating(r) ==
    /\ op[r] = "create"
    /\ IF reply[r].kind # "json"
       THEN Finish(r, store, [status |-> 500, body |-> << >>])
       ELSE Finish(r, Push(store, task[r]), [status |-> 201, body |-> <<task[r]>>])

create_task_insert(r) ==
    /\ op[r] = "create"
    /\ Finish(r, Push(store, task[r]), [status |-> 201, body |-> <<task[r]>>])

list_tasks(r) ==
    /\ op[r] = "list"
    /\ Finish(r, store, [status |-> 200, body |-> store])

get_task(r) ==
    /\ op[r] = "get"
    /\ Finish(r, store, GetResp(store, path[r]))

update_task(r) ==
    /\ op[r] = "update"
    /\ Finish(r, UpdateStore(store, path[r], task[r]), UpdateResp(store, path[r], task[r]))

delete_task(r) ==
    /\ op[r] = "delete"
    /\ Finish(r, Retain(store, path[r]), DeleteResp(store, path[r]))

\* one step of the service, the external service answering from outcomes
\* and the PATCH bodies taking their fields from fields
Step(outcomes, fields) ==
    \/ \E r \in Reqs, title \in Titles : create_task_begin(r, title)
    \/ \E r \in Reqs, outcome \in outcomes : create_task_analyzed(r, outcome)
    \/ \E r \in Reqs : Route(r, "list", 0, NoTask)
    \/ \E r \in Reqs, id \in KnownIds : Route(r, "get", id, NoTask)
    \/ \E r \in Reqs, id \in KnownIds, payload \in Payloads(fields) :
          Route(r, "update", id, payload)
    \/ \E r \in Reqs, id \in KnownIds : Route(r, "delete", id, NoTask)
    \/ \E r \in Reqs : Acquire(r)
    \/ \E r \in Reqs : create_task_insert(r)
    \/ \E r \in Reqs : list_tasks(r)
    \/ \E r \in Reqs : get_task(r)
    \/ \E r \in Reqs : update_task(r)
    \/ \E r \in Reqs : delete_task(r)

Next == Step(Outcomes, PatchFields)

Spec == Init /\ [][Next]_vars

\* For the progress of requests the data of answers and bodies plays no
\* part: one failing and one successful answer of the external service, one
\* PATCH body per id.
LiveOutcomes == {SendErr} \cup {JsonCompletion(c) : c \in ServiceTexts}
LiveFields == {Task(0, "Pay rent", TRUE, None, None)}
LiveNext == Step(LiveOutcomes, LiveFields)

\* The runtime polls every handler that can run, and a Mutex that is free is
\* handed to a handler waiting for it. Nothing makes a client send a request
\* or the external service answer one.
LiveSpec ==
    /\ Init
    /\ [][LiveNext]_vars
    /\ \A r \in Reqs :
          /\ WF_vars(Acquire(r))
          /\ WF_vars(create_task_insert(r))
          /\ WF_vars(list_tasks(r))
          /\ WF_vars(get_task(r))
          /\ WF_vars(update_task(r))
          /\ WF_vars(delete_task(r))

\* --------------------------------------------- the parser on its own
ParseInit ==
    /\ StoreInit
    /\ apiKeySet = TRUE
    /\ text \in Texts(MaxAtoms)
    /\ parsed = NoTask
    /\ ppc = "start"

\* analyze_task_with_claude on a draft, the service answering with text
Analyze ==
    /\ ppc = "start"
    /\ parsed' = analyze_task_with_claude(Draft(1, "Buy milk"), JsonCompletion(text)).task
    /\ ppc' = "done"
    /\ UNCHANGED <<storeVars, text>>

ParseNext == Analyze

ParseSpec == ParseInit /\ [][ParseNext]_vars

\* ====================================================== the claims
\* request r takes the step that ends its handler
Finishes(r) == pc[r] = "crit" /\ pc'[r] = "done"

HasId(s, id) == \E i \in 1..Len(s) : s[i].id = id

Created(r) == op[r] = "create" /\ pc[r] = "done"

\* C1: in every reachable state no two tasks of the store carry the same id.
C1_UniqueIds ==
    \A i, j \in 1..Len(store) : i # j => store[i].id # store[j].id

\* C2: when PATCH /tasks/i with body b is answered 200, a GET /tasks/i
\* issued next is answered 200 with a task equal to b in every field.
C2_PatchThenGet ==
    [][\A r \in Reqs :
          (op[r] = "update" /\ Finishes(r) /\ resp'[r].status = 200)
          => GetResp(store', path[r]) = [status |-> 200, body |-> <<task[r]>>]]_vars

\* C3: create requests, in any interleaving, are answered with pairwise
\* different ids, and when no PATCH or DELETE was sent, a list call that
\* runs after a create was answered returns that create's task.
C3_ConcurrentCreates ==
    [][/\ \A r, q \in Reqs :
             (r # q /\ Created(r)' /\ Created(q)')
             => resp'[r].body[1].id # resp'[q].body[1].id
       /\ \A l \in Reqs :
             (op[l] = "list" /\ Finishes(l)
                 /\ \A q \in Reqs : op[q] \notin {"update", "delete"})
             => /\ resp'[l].status = 200
                /\ \A r \in Reqs :
                      Created(r)
                      => \E i \in 1..Len(resp'[l].body) :
                            resp'[l].body[i] = resp[r].body[1]]_vars

\* two creates answered, the later-arrived one inserted first, and a list
\* call answered with both
C3_Witness ==
    \E r, q, l \in Reqs :
        /\ r < q
        /\ Created(r) /\ Created(q)
        /\ op[l] = "list" /\ pc[l] = "done"
        /\ resp[l].body = <<resp[q].body[1], resp[r].body[1]>>

\* C5: DELETE /tasks/{id} of an id some stored task carries is answered 204
\* and leaves no stored task with that id, so that GET /tasks/{id} is 404.
C5_DeleteRemoves ==
    [][\A r \in Reqs :
          (op[r] = "delete" /\ Finishes(r) /\ HasId(store, path[r]))
          => /\ resp'[r].status = 204
             /\ ~HasId(store', path[r])
             /\ GetResp(store', path[r]).status = 404]_vars

\* a DELETE answered 204 while another task stays in the store
C5_Witness ==
    \E r \in Reqs :
        op[r] = "delete" /\ pc[r] = "done" /\ resp[r].status = 204 /\ Len(store) > 0

\* C6: a request answered 404 leaves the store as it was.
C6_NotFoundFrame ==
    [][\A r \in Reqs :
          (Finishes(r) /\ resp'[r].status = 404)
          => /\ op[r] \in {"get", "update", "delete"}
             /\ ~HasId(store, path[r])
             /\ store' = store]_vars

\* a DELETE and a PATCH both answered 404 with a task in the store
C6_Witness ==
    \E r, q \in Reqs :
        /\ op[r] = "delete" /\ pc[r] = "done" /\ resp[r].status = 404
        /\ op[q] = "update" /\ pc[q] = "done" /\ resp[q].status = 404
        /\ Len(store) > 0

\* the external call came back without a completion: send() failed, the
\* body was not JSON, or the JSON (an error object) has no completion text
Failed(o) == o.kind \in {"send_err", "json_err"} \/ (o.kind = "json" /\ o.completion = None)

\* what create_task does once the external call has returned
C4_CreateStep(r) ==
    (op[r] = "create" /\ Finishes(r))
    => /\ resp'[r] = [status |-> 201, body |-> <<task[r]>>]
       /\ store' = Append(store, task[r])
       /\ task[r].completed = FALSE
       /\ Failed(reply[r])
          => task[r].priority = None /\ task[r].estimated_time = None

\* every answer to a create request is a 201
C4_Answer(r) ==
    op[r] = "create" => resp[r].status \in {0, 201}

\* a create request that has ended was answered 201
C4_Ended(r) ==
    (op[r] = "create" /\ pc[r] \in {"done", "panicked"}) => resp[r].status = 201

\* C4 as stated: every create request ends with a 201 and its task in the
\* store, unenriched when the enrichment call failed.
C4_EveryCreateAnswered ==
    [][\A r \in Reqs : C4_CreateStep(r) /\ C4_Answer(r)' /\ C4_Ended(r)']_vars

\* C4, amended: with CLAUDE_API_KEY set, every create request whose
\* enrichment call has returned ends with a 201 and its task in the store,
\* unenriched when the call failed; a create request ends without an answer
\* only when the key is not set.
C4_CreateAnsweredWithKey ==
    [][\A r \in Reqs :
          /\ C4_CreateStep(r)
          /\ C4_Answer(r)'
          /\ apiKeySet => C4_Ended(r)'
          /\ (op'[r] = "create" /\ reply'[r] # NoReply) => pc'[r] \in {"lock", "crit", "done"}]_vars

\* a create answered 201 with an unenriched task after send() failed, and
\* one after the service answered without a completion
C4_Witness ==
    \E r, q \in Reqs :
        /\ Created(r) /\ reply[r] = SendErr /\ resp[r].status = 201
        /\ resp[r].body[1].priority = None /\ resp[r].body[1].estimated_time = None
        /\ Created(q) /\ reply[q] = JsonNoCompletion /\ resp[q].status = 201
        /\ store = <<resp[r].body[1], resp[q].body[1]>>

\* C7: while a create request waits on the external call it does not hold
\* the Mutex, and every other request that asks for the Mutex gets it and is
\* answered, also when the external call never returns.
C7_LockFreeWhileAwaiting ==
    /\ [](\A r \in Reqs : pc[r] = "await" => lock # r)
    /\ \A q \in Reqs : (pc[q] = "lock") ~> (pc[q] = "done")

\* a request that arrived after a create began is answered while the create
\* still waits on the external call
C7_Witness ==
    \E r, q \in Reqs :
        r < q /\ pc[r] = "await" /\ pc[q] = "done" /\ op[q] # "create"

\* the draft of a create request that waits on the external call is in no
\* store slot and in no answer
C8_Hidden(r) ==
    (op[r] = "create" /\ pc[r] = "await")
    => /\ ~HasId(store, task[r].id)
       /\ \A q \in Reqs : ~HasId(resp[q].body, task[r].id)

\* C8: a task being created is in the store only after its enrichment call
\* has returned, and stored tasks change only by PATCH and DELETE requests.
C8_VisibleAfterEnrichment ==
    [][/\ \A r \in Reqs : C8_Hidden(r)'
       /\ store' # store
          => \E r \in Reqs :
                /\ Finishes(r)
                /\ \/ op[r] \in {"update", "delete"}
                   \/ /\ op[r] = "create"
                      /\ reply[r] # NoReply
                      /\ store' = Append(store, task[r])]_vars

\* a list call that arrived after a create began is answered, without the
\* draft, while the create still waits on the external call
C8_Witness ==
    \E r, l \in Reqs :
        /\ r < l
        /\ op[r] = "create" /\ pc[r] = "await"
        /\ op[l] = "list" /\ pc[l] = "done" /\ resp[l].status = 200
        /\ ~HasId(resp[l].body, task[r].id)

\* ------------------------------------------------ the parser's claims
\* kw occurs in s at index i, and somewhere in s
OccursAt(kw, s, i) == i + Len(kw) - 1 <= Len(s) /\ SubSeq(s, i, i + Len(kw) - 1) = kw
Occurs(kw, s) == \E i \in 1..Len(s) : OccursAt(kw, s, i)

\* C9: priority is the first of High, Medium, Low, in that order, that occurs
\* anywhere in the response text, and absent when none of them occurs.
C9_PriorityByKeywordOrder ==
    ppc = "done"
    => parsed.priority =
          IF Occurs(High, text) THEN Some(High)
          ELSE IF Occurs(Medium, text) THEN Some(Medium)
          ELSE IF Occurs(Low, text) THEN Some(Low)
          ELSE None

\* "Low" stands before "High" in the text and the priority is High
C9_Witness ==
    /\ ppc = "done"
    /\ \E i, j \in 1..Len(text) : i < j /\ OccursAt(Low, text, i) /\ OccursAt(High, text, j)
    /\ parsed.priority = Some(High)

\* the last whitespace-delimited token of s, when s has one
HasToken(s) == \E i \in 1..Len(s) : ~IsWhitespace(s[i])
LastToken(s) ==
    LET b == CHOOSE i \in 1..Len(s) :
                 ~IsWhitespace(s[i]) /\ \A k \in (i + 1)..Len(s) : IsWhitespace(s[k])
        a == CHOOSE i \in 1..b :
                 /\ \A k \in i..b : ~IsWhitespace(s[k])
                 /\ i > 1 => IsWhitespace(s[i - 1])
    IN  SubSeq(s, a, b)

\* the text before the first occurrence of "hours"
BeforeHours(s) ==
    LET i == CHOOSE k \in 1..Len(s) :
                 OccursAt(hours, s, k) /\ \A m \in 1..(k - 1) : ~OccursAt(hours, s, m)
    IN  SubSeq(s, 1, i - 1)

\* C10: estimated_time is "<token> hours", token the last whitespace-delimited
\* token before the first "hours", and absent when there is no such token, in
\* particular when "hours" does not occur in the text.
C10_EstimatedTime ==
    ppc = "done"
    => parsed.estimated_time =
          IF Occurs(hours, text) /\ HasToken(BeforeHours(text))
          THEN Some(LastToken(BeforeHours(text)) \o Space \o hours)
          ELSE None

\* C10 on the texts in which "hours" occurs
C10_WhenHoursOccurs ==
    (ppc = "done" /\ Occurs(hours, text)) => C10_EstimatedTime

====
